---- MODULE Spec2Model ----
(***************************************************************************)
(* Polar MCP proxy: the /sse and /message handlers of the proxy server     *)
(* (src/unnamed/part_001) and the schema normalizer it calls               *)
(* (src/src/schema-normalizer.ts).                                         *)
(*                                                                         *)
(* A physical client connection is one run of the /sse handler; an inbound *)
(* message is one run of the /message handler.  Both handlers are async:   *)
(* each runs synchronously up to its `await`, and resumes when the awaited *)
(* upstream promise settles.  The `close` and `error` events of the        *)
(* inbound request are delivered only to the listeners registered at the   *)
(* moment they are emitted.                                                *)
(***************************************************************************)
EXTENDS Integers, Sequences, FiniteSets, TLC

\* ------------------------------------------------------------------ bounds
\* handler runs (GET /sse and POST /message together) the model starts
MaxRuns == 3
\* tools in a tools/list result handed to the normalizer
MaxTools == 2
\* successive applications of a normalizer function to its own result
MaxApplications == 2

\* the runs of the /sse handler, one per client connection, and of the
\* /message handler, one per inbound message
Conns == 1..MaxRuns
Reqs == 1..MaxRuns
\* the values generateClientId can return: one for every run, so that an id
\* not yet issued is always among them
Ids == 1..MaxRuns

\* ------------------------------------------------------- values and inputs
\* connections.get(clientId) of an id that is not registered
NoConn == 0
\* no client id yet
NoId == 0
\* ?clientId= : the empty identifier (a missing parameter reads as undefined
\* and takes the same `!clientId` branch)
EmptyId == 0

\* methods of inbound messages: "absent" is a message without the key, "" the
\* empty string
Methods == {"absent", "", "tools/list", "tools/call", "foo/bar"}
Body(shape, method, id) == [shape |-> shape, method |-> method, id |-> id]
\* req.body as the /message handler sees it: no body, an array, and objects
\* with and without `method` and `id` ("undefined" is a message without an id)
Bodies ==
  {Body("undefined", "absent", "undefined"),
   Body("array", "absent", "undefined"),
   Body("object", "absent", "7"),
   Body("object", "", "7"),
   Body("object", "foo/bar", "7"),
   Body("object", "tools/list", "undefined"),
   Body("object", "tools/list", "7"),
   Body("object", "tools/call", "undefined"),
   Body("object", "tools/call", "8")}

\* failure texts of the upstream library
ErrTexts == {"Request timed out"}

\* ------------------------------------------------ JSON values of the model
\* A key that is missing is "absent"; a key holding the value undefined is
\* "undefined" (JSON.stringify drops it); "" is the empty string.
\* A schema: kind is what `typeof` sees, the other fields are its keys.
AbsentSchema ==
  [kind |-> "absent", type |-> "absent", properties |-> "absent", required |-> "absent"]
NonObjectSchema ==
  [kind |-> "nonobject", type |-> "absent", properties |-> "absent", required |-> "absent"]
ObjectSchemas ==
  [kind : {"object"}, type : {"absent", "", "object", "string"},
   properties : {"absent", "{}", "{product_id}"},
   required : {"absent", "[product_id]"}]

\* the tool of the README example
CheckoutTool ==
  [kind |-> "object", name |-> "create_checkout",
   description |-> "Create a checkout session",
   inputSchema |-> [kind |-> "object", type |-> "absent",
                    properties |-> "{product_id}", required |-> "[product_id]"],
   annotations |-> "absent"]
\* a tool that already carries a type, with a passthrough field
TypedTool ==
  [kind |-> "object", name |-> "list_products", description |-> "absent",
   inputSchema |-> [kind |-> "object", type |-> "object",
                    properties |-> "{}", required |-> "absent"],
   annotations |-> "readOnly"]
\* a tool value without a string name
NamelessTool ==
  [kind |-> "object", name |-> "absent", description |-> "absent",
   inputSchema |-> AbsentSchema, annotations |-> "absent"]

\* a tool whose schema is the empty object
UntypedTool ==
  [kind |-> "object", name |-> "list_orders", description |-> "absent",
   inputSchema |-> [kind |-> "object", type |-> "absent",
                    properties |-> "absent", required |-> "absent"],
   annotations |-> "absent"]
\* a tool without inputSchema and with a description that is not a string
BareTool ==
  [kind |-> "object", name |-> "get_customer", description |-> "nonstring",
   inputSchema |-> AbsentSchema, annotations |-> "absent"]
\* an element of the tools array that is not an object
NonObjectTool ==
  [kind |-> "string", name |-> "absent", description |-> "absent",
   inputSchema |-> AbsentSchema, annotations |-> "absent"]

\* what mcpClient.listTools() resolves to: result.tools
UpstreamToolLists ==
  {[isArray |-> TRUE, items |-> <<CheckoutTool, TypedTool, UntypedTool>>],
   [isArray |-> TRUE, items |-> <<CheckoutTool, NamelessTool>>]}

\* ------------------------------------------------------ schema-normalizer.ts
\* a returned value, or the Error thrown instead
Returned(v) == [threw |-> FALSE, isError |-> FALSE, message |-> <<>>, value |-> v]
Thrown(msg, v) == [threw |-> TRUE, isError |-> TRUE, message |-> msg, value |-> v]

\* a rejection value that is not an Error
ThrownValue(v) == [threw |-> TRUE, isError |-> FALSE, message |-> <<v>>, value |-> <<>>]
NothingThrown == [threw |-> FALSE, isError |-> FALSE, message |-> <<>>, value |-> <<>>]

\* `!schemaObj.type`: a missing key and the empty string are both falsy
Falsy(v) == v \in {"absent", "undefined", "null", ""}

\* mutant: every schema without a type is taken to need the fix
schemaNeedsNormalizationUntyped(schema) ==
  IF schema.kind # "object"
  THEN FALSE
  ELSE Falsy(schema.type)

schemaNeedsNormalization(schema) ==
  IF schema.kind # "object"
  THEN FALSE
  ELSE Falsy(schema.type) /\ schema.properties \notin {"absent", "undefined"}

\* { type: "object", ...schema }: a `type` key of the schema overrides the default
normalizeInputSchema(schema) ==
  IF ~schemaNeedsNormalization(schema)
  THEN schema
  ELSE [schema EXCEPT !.type = IF schema.type = "absent" THEN "object" ELSE schema.type]

IsString(v) == v \notin {"absent", "undefined", "null", "nonstring"}

\* mutant: the default schema of a tool without inputSchema has no type
normalizeToolUntypedDefault(tool) ==
  IF tool.kind # "object"
  THEN Thrown(<<"Invalid tool: expected object, got ", tool.kind>>, tool)
  ELSE IF ~IsString(tool.name)
  THEN Thrown(<<"Invalid tool: missing or invalid 'name' field">>, tool)
  ELSE IF tool.inputSchema.kind = "nonobject"
  THEN Thrown(<<"Invalid tool '", tool.name, "': inputSchema must be an object">>, tool)
  ELSE Returned(
    [kind |-> "object",
     name |-> tool.name,
     description |-> IF IsString(tool.description) THEN tool.description ELSE "undefined",
     inputSchema |->
       IF tool.inputSchema.kind # "absent"
       THEN normalizeInputSchema(tool.inputSchema)
       ELSE [kind |-> "object", type |-> "absent", properties |-> "{}", required |-> "absent"],
     annotations |-> tool.annotations])

normalizeTool(tool) ==
  IF tool.kind # "object"
  THEN Thrown(<<"Invalid tool: expected object, got ", tool.kind>>, tool)
  ELSE IF ~IsString(tool.name)
  THEN Thrown(<<"Invalid tool: missing or invalid 'name' field">>, tool)
  ELSE IF tool.inputSchema.kind = "nonobject"
  THEN Thrown(<<"Invalid tool '", tool.name, "': inputSchema must be an object">>, tool)
  ELSE Returned(
    [kind |-> "object",
     name |-> tool.name,
     description |-> IF IsString(tool.description) THEN tool.description ELSE "undefined",
     inputSchema |->
       IF tool.inputSchema.kind # "absent"
       THEN normalizeInputSchema(tool.inputSchema)
       ELSE [kind |-> "object", type |-> "object", properties |-> "{}", required |-> "absent"],
     annotations |-> tool.annotations])

\* tools.map(normalizeTool): the first tool that throws ends the map
RECURSIVE MapNormalizeTool(_)
MapNormalizeTool(items) ==
  IF items = <<>>
  THEN Returned(<<>>)
  ELSE LET first == normalizeTool(Head(items))
       IN IF first.threw
          THEN Thrown(first.message, <<>>)
          ELSE LET rest == MapNormalizeTool(Tail(items))
               IN IF rest.threw
                  THEN rest
                  ELSE Returned(<<first.value>> \o rest.value)

normalizeTools(tools) ==
  IF ~tools.isArray
  THEN Returned(<<>>)
  ELSE MapNormalizeTool(tools.items)

\* a JSON-RPC response object; an absent `error` or `result` has present/kind unset
NoError == [present |-> FALSE, code |-> 0, message |-> <<>>]
NoTools == [isArray |-> FALSE, items |-> <<>>]
NoResult == [kind |-> "absent", tools |-> NoTools, content |-> "absent"]
\* a response: `meta` stands for a top-level key outside JSON-RPC, `content`
\* for the keys of `result` other than `tools`
Response(id, error, result, meta) ==
  [kind |-> "object", jsonrpc |-> "2.0", id |-> id, error |-> error, result |-> result,
   meta |-> meta]
\* a response value that is not an object
NonObjectResponse ==
  [kind |-> "string", jsonrpc |-> "absent", id |-> "absent", error |-> NoError,
   result |-> NoResult, meta |-> "absent"]

\* mutant: the response is built anew from jsonrpc, id and the tools
normalizeToolsListResponseRebuilt(response) ==
  IF response.kind # "object"
  THEN Returned(response)
  ELSE IF response.error.present
  THEN Returned(response)
  ELSE IF response.result.kind # "object"
  THEN Returned(response)
  ELSE IF ~response.result.tools.isArray
  THEN Returned(response)
  ELSE LET normalizedTools == normalizeTools(response.result.tools)
       IN IF normalizedTools.threw
          THEN Thrown(normalizedTools.message, response)
          ELSE Returned(
                 [kind |-> "object", jsonrpc |-> "2.0", id |-> response.id,
                  error |-> NoError, meta |-> "absent",
                  result |-> [kind |-> "object", content |-> "absent",
                              tools |-> [isArray |-> TRUE, items |-> normalizedTools.value]]])

normalizeToolsListResponse(response) ==
  IF response.kind # "object"
  THEN Returned(response)
  ELSE IF response.error.present
  THEN Returned(response)
  ELSE IF response.result.kind # "object"
  THEN Returned(response)
  ELSE IF ~response.result.tools.isArray
  THEN Returned(response)
  ELSE LET normalizedTools == normalizeTools(response.result.tools)
       IN IF normalizedTools.threw
          THEN Thrown(normalizedTools.message, response)
          ELSE Returned([response EXCEPT
                 !.result.tools = [isArray |-> TRUE, items |-> normalizedTools.value]])

\* ------------------------------------------------------------ proxy server
VARIABLES
  connections,     \* the registry: client id -> connection, NoConn when unset
  ssePc,           \* where each /sse handler run stands
  clientId,        \* the id generateClientId gave the run
  channel,         \* the frames written to the run's response, in order
  resStatus,       \* the status sent with the response head, 0 before it is sent
  resEnded,        \* res.end() was called
  reqState,        \* the inbound request: "open", "errored" (`error` emitted), "closed"
  resDestroyed,    \* the response is destroyed: its client is gone, or it has finished
  socketGone,      \* the client's socket is destroyed; node emits the events of that later
  sent,            \* how many of the frames written were sent to the client
  mcpState,        \* the run's upstream client: "new", "connecting", "connected", "failed", "closed"
  connectCalls,    \* calls of mcpClient.connect
  closeCalls,      \* calls of mcpClient.close
  mPc,             \* where each /message handler run stands
  mClientId,       \* req.query.clientId
  mMessage,        \* req.body
  mConn,           \* the connection the run looked up
  reply,           \* the run's HTTP reply
  upstreamCalls,   \* upstream calls the run has made
  settled,         \* how the awaited upstream promise settled
  caught,          \* the errorMessage the run's catch block computed
  thrown,          \* the value the run's catch block received
  errorQueued,     \* an "error" event that nothing listens for waits to be emitted
  exited           \* the process has exited on an unhandled "error" event

\* the normalizer applied on its own to one argument
VARIABLES
  fn,              \* the function applied: "none" while the server runs
  schemaArg,       \* the argument of normalizeInputSchema
  toolArg,         \* the argument of normalizeTool
  responseArg,     \* the argument of normalizeToolsListResponse
  returns          \* what successive applications returned or threw, oldest first

normVars == <<fn, schemaArg, toolArg, responseArg, returns>>
sseVars == <<connections, ssePc, clientId, channel, resStatus, resEnded, reqState,
             resDestroyed, socketGone, sent, mcpState, connectCalls, closeCalls>>
msgVars == <<mPc, mClientId, mMessage, mConn, reply, upstreamCalls, settled, caught,
             thrown>>
vars == <<sseVars, msgVars, normVars, errorQueued, exited>>

NoReply == [status |-> 0, code |-> 0, message |-> <<>>, id |-> "absent"]
NoBody == [shape |-> "undefined", method |-> "absent", id |-> "undefined"]

\* JSON.stringify drops a key whose value is undefined
Drop(v) == IF v = "undefined" THEN "absent" ELSE v
Stringify(message) ==
  [message EXCEPT
     !.id = Drop(@),
     !.result.tools.items =
        [i \in DOMAIN @ |-> [@[i] EXCEPT !.description = Drop(@)]]]

\* `data: ${data}\n\n`
Frame(data) == <<"data: ", data, "\n\n">>
Payload(frame) == frame[2]

\* mutant: the frame is put in front of what was written before
sendToClientFirst(ch, c, message) ==
  [ch EXCEPT ![c] = <<Frame(Stringify(message))>> \o @]

\* sendToClient(connection, message): one write on the connection's response
sendToClient(ch, c, message) ==
  [ch EXCEPT ![c] = Append(@, Frame(Stringify(message)))]
\* a first write sends the response head with the status set so far (200); a
\* response that is already destroyed sends nothing
HeadAfterWrite(st, c) ==
  IF st[c] = 0 /\ ~resDestroyed[c] THEN [st EXCEPT ![c] = 200] ELSE st
\* response.write sends the frame to the client when the response is neither
\* ended nor destroyed and its socket is there; node drops the frame of any
\* other write (on a socket that is gone, with the response not destroyed yet,
\* write returns false and nothing is sent)
Sendable(c) == ~resEnded[c] /\ ~resDestroyed[c] /\ ~socketGone[c]
SentAfterWrite(sn, c) ==
  IF Sendable(c) THEN [sn EXCEPT ![c] = @ + 1] ELSE sn
\* a write to a response that was ended and is not destroyed yet: node queues
\* an "error" event (ERR_STREAM_WRITE_AFTER_END) for the response, and nothing
\* listens for it; once the response is destroyed the write is dropped without
\* an event
WriteAfterEnd(c) == resEnded[c] /\ ~resDestroyed[c]
\* a queued "error" is emitted, and the process exits on it, when the
\* continuations that are ready to run have run: the step that has just run is
\* the last of them, or is not
EndOfTick(queued) == IF queued THEN BOOLEAN ELSE {FALSE}

InitializeMessage ==
  Response("0", NoError,
           [kind |-> "object", tools |-> NoTools, content |-> "serverInfo"], "absent")

ServerInit ==
  /\ connections = [i \in Ids |-> NoConn]
  /\ ssePc = [c \in Conns |-> "idle"]
  /\ clientId = [c \in Conns |-> NoId]
  /\ channel = [c \in Conns |-> <<>>]
  /\ resStatus = [c \in Conns |-> 0]
  /\ resEnded = [c \in Conns |-> FALSE]
  /\ reqState = [c \in Conns |-> "open"]
  /\ resDestroyed = [c \in Conns |-> FALSE]
  /\ socketGone = [c \in Conns |-> FALSE]
  /\ sent = [c \in Conns |-> 0]
  /\ mcpState = [c \in Conns |-> "new"]
  /\ connectCalls = [c \in Conns |-> 0]
  /\ closeCalls = [c \in Conns |-> 0]
  /\ mPc = [r \in Reqs |-> "idle"]
  /\ mClientId = [r \in Reqs |-> EmptyId]
  /\ mMessage = [r \in Reqs |-> NoBody]
  /\ mConn = [r \in Reqs |-> NoConn]
  /\ reply = [r \in Reqs |-> NoReply]
  /\ upstreamCalls = [r \in Reqs |-> 0]
  /\ settled = [r \in Reqs |-> "none"]
  /\ caught = [r \in Reqs |-> <<>>]
  /\ thrown = [r \in Reqs |-> NothingThrown]
  /\ errorQueued = FALSE
  /\ exited = FALSE

\* the server: the normalizer is reached only through the /message handler
Init ==
  /\ ServerInit
  /\ fn = "none"
  /\ schemaArg = AbsentSchema
  /\ toolArg = NonObjectTool
  /\ responseArg = NonObjectResponse
  /\ returns = <<>>

\* generateClientId(): `${Date.now()}-${Math.random()...}`; the value is
\* compared with no id issued before.  A call returns an id that no call has
\* returned (ids are interchangeable: of the new ones the model takes the
\* least), which is what a call does unless the clock reading and the random
\* digits of an earlier call both come again; or it returns any id issued
\* before
IssuedIds == {clientId[c] : c \in Conns} \ {NoId}
generateClientId ==
  {id \in Ids : id \in IssuedIds \/ \A j \in Ids : j < id => j \in IssuedIds}

\* the handler runs started so far
Started ==
  Cardinality({c \in Conns : ssePc[c] # "idle"}) + Cardinality({r \in Reqs : mPc[r] # "idle"})

\* GET /sse up to `await mcpClient.connect(polarTransport)`
SseOpen(c) ==
  /\ ~exited /\ ~errorQueued
  /\ Started < MaxRuns
  /\ ssePc[c] = "idle"
  /\ \A d \in Conns : d < c => ssePc[d] # "idle"
  /\ \E id \in generateClientId :
       /\ clientId' = [clientId EXCEPT ![c] = id]
       /\ connections' = [connections EXCEPT ![id] = c]
  /\ mcpState' = [mcpState EXCEPT ![c] = "connecting"]
  /\ connectCalls' = [connectCalls EXCEPT ![c] = @ + 1]
  /\ ssePc' = [ssePc EXCEPT ![c] = "connecting"]
  /\ UNCHANGED <<channel, resStatus, resEnded, reqState, resDestroyed, socketGone, sent,
                 closeCalls, msgVars, normVars, errorQueued, exited>>

\* connect resolved: the initialization message is sent and the close and
\* error listeners are registered
ConnectResolved(c) ==
  /\ ~exited
  /\ ssePc[c] = "connecting"
  /\ mcpState' = [mcpState EXCEPT ![c] = "connected"]
  /\ channel' = sendToClient(channel, c, InitializeMessage)
  /\ resStatus' = HeadAfterWrite(resStatus, c)
  /\ sent' = SentAfterWrite(sent, c)
  /\ ssePc' = [ssePc EXCEPT ![c] = "open"]
  /\ errorQueued' = (errorQueued \/ WriteAfterEnd(c))
  /\ exited' \in EndOfTick(errorQueued')
  /\ UNCHANGED <<connections, clientId, resEnded, reqState, resDestroyed, socketGone,
                 connectCalls, closeCalls, msgVars, normVars>>

\* connect rejected: res.status(500).end(); connections.delete(clientId)
ConnectRejected(c) ==
  /\ ~exited
  /\ ssePc[c] = "connecting"
  /\ mcpState' = [mcpState EXCEPT ![c] = "failed"]
  /\ resStatus' = [resStatus EXCEPT ![c] = IF @ = 0 THEN 500 ELSE @]
  /\ resEnded' = [resEnded EXCEPT ![c] = TRUE]
  /\ connections' = [connections EXCEPT ![clientId[c]] = NoConn]
  /\ ssePc' = [ssePc EXCEPT ![c] = "failed"]
  /\ exited' \in EndOfTick(errorQueued)
  /\ UNCHANGED <<clientId, channel, reqState, resDestroyed, socketGone, sent, connectCalls,
                 closeCalls, msgVars, normVars, errorQueued>>

\* mutant: the listener empties the registry
TeardownClears(c) ==
  /\ connections' = [i \in Ids |-> NoConn]
  /\ mcpState' = [mcpState EXCEPT ![c] = "closed"]
  /\ closeCalls' = [closeCalls EXCEPT ![c] = @ + 1]

\* the listener bodies: connections.delete(clientId); mcpClient.close()
Teardown(c) ==
  /\ connections' = [connections EXCEPT ![clientId[c]] = NoConn]
  /\ mcpState' = [mcpState EXCEPT ![c] = "closed"]
  /\ closeCalls' = [closeCalls EXCEPT ![c] = @ + 1]

\* mutant: any event of the request may leave the response alive
GoneWithAlive(c, ev) == BOOLEAN

\* what a request event leaves of the response.  `error` and the `close` that
\* follows it come from the client's socket, and the `close` after res.end()
\* from the response having finished: the response is destroyed.  A request
\* that came with a body emits `close` when the body has been read, right after
\* the handler reached its await, with the client connected and the response
\* alive; the same `close` is the one of a client that went away.
GoneWith(c, ev) ==
  IF ev = "close" /\ reqState[c] = "open" /\ ssePc[c] = "connecting"
  THEN BOOLEAN
  ELSE {TRUE}

\* the client's socket is destroyed (the client went away).  Node emits the
\* events of the request and of the response one phase of the event loop
\* later: until then the response is not destroyed, no listener has run, and
\* a handler that resumes writes to a socket that is gone
SocketGone(c) ==
  /\ ~exited /\ ~errorQueued
  /\ ssePc[c] # "idle"
  /\ ~socketGone[c] /\ ~resDestroyed[c]
  /\ socketGone' = [socketGone EXCEPT ![c] = TRUE]
  /\ UNCHANGED <<connections, ssePc, clientId, channel, resStatus, resEnded, reqState,
                 resDestroyed, sent, mcpState, connectCalls, closeCalls, msgVars, normVars,
                 errorQueued, exited>>

\* the inbound request emits `error`, or `close` (its last event, which also
\* follows an `error` and the end of the response); only a listener registered
\* by then runs, and node emits `error` only to a registered listener
ReqEvent(c, ev) ==
  /\ ~exited /\ ~errorQueued
  /\ IF ev = "error" THEN ssePc[c] = "open" ELSE ssePc[c] \in {"connecting", "open", "failed"}
  /\ IF reqState[c] = "open" THEN TRUE ELSE reqState[c] = "errored" /\ ev = "close"
  /\ reqState' = [reqState EXCEPT ![c] = IF ev = "error" THEN "errored" ELSE "closed"]
  /\ \E gone \in GoneWith(c, ev) :
       /\ resDestroyed' = [resDestroyed EXCEPT ![c] = @ \/ gone]
       /\ socketGone' = [socketGone EXCEPT ![c] = @ \/ (gone /\ ~resEnded[c])]
  /\ IF ssePc[c] = "open"
     THEN Teardown(c)
     ELSE UNCHANGED <<connections, mcpState, closeCalls>>
  /\ UNCHANGED <<ssePc, clientId, channel, resStatus, resEnded, sent, connectCalls, msgVars,
                 normVars, errorQueued, exited>>

\* the response of a request that has closed is destroyed later, with no
\* further event of the request: its client goes away, or the ended response
\* finishes
ResClosed(c) ==
  /\ ~exited /\ ~errorQueued
  /\ reqState[c] = "closed"
  /\ ~resDestroyed[c]
  /\ resDestroyed' = [resDestroyed EXCEPT ![c] = TRUE]
  /\ socketGone' = [socketGone EXCEPT ![c] = @ \/ ~resEnded[c]]
  /\ UNCHANGED <<connections, ssePc, clientId, channel, resStatus, resEnded, reqState, sent,
                 mcpState, connectCalls, closeCalls, msgVars, normVars, errorQueued, exited>>

\* the synchronous replies of POST /message
ErrorReply(status, code, message, id) ==
  [status |-> status, code |-> code, message |-> message, id |-> id]
AcceptedReply == [status |-> 202, code |-> 0, message |-> <<"accepted">>, id |-> "absent"]
\* res.status(500).json({ status: "error", message: errorMessage })
FailureReply(errorMessage) ==
  [status |-> 500, code |-> 0, message |-> <<"error">> \o errorMessage, id |-> "absent"]
\* message.id ?? null
IdOrNull(id) == IF id \in {"undefined", "absent", "null"} THEN "null" ELSE id

\* mutant: the failure text is dropped
errorMessageOfUnknown(error) == <<"Unknown error">>

\* error instanceof Error ? error.message : "Unknown error"
errorMessageOf(error) ==
  IF error.isError THEN error.message ELSE <<"Unknown error">>

InternalErrorResponse(id, errorMessage) ==
  Response(id, [present |-> TRUE, code |-> -32603,
                message |-> <<"Internal error: ">> \o errorMessage],
           NoResult, "absent")
ToolsListResponse(id, tools) ==
  Response(id, NoError, [kind |-> "object", tools |-> tools, content |-> "absent"], "absent")
ToolsCallResponse(id, content) ==
  Response(id, NoError, [kind |-> "object", tools |-> NoTools, content |-> content], "absent")

\* mutant: the lookup takes a registered connection whatever the id
LookupAny(cid) ==
  IF cid = EmptyId \/ \A i \in Ids : connections[i] = NoConn
  THEN NoConn
  ELSE connections[CHOOSE i \in Ids : connections[i] # NoConn]

\* connections.get(clientId), reached only with a non-empty id
Lookup(cid) == IF cid = EmptyId THEN NoConn ELSE connections[cid]

\* mutant: every other method is forwarded upstream like tools/call
SyncReplyForwardsOthers(cid, message) ==
  IF cid = EmptyId
  THEN ErrorReply(400, -32600, <<"Missing clientId parameter">>, "null")
  ELSE IF Lookup(cid) = NoConn
  THEN ErrorReply(404, -32600, <<"Client not found">>, "null")
  ELSE IF message.shape = "undefined"
  THEN ErrorReply(400, -32600, <<"Invalid JSON-RPC message">>, "null")
  ELSE IF Falsy(message.method)
  THEN ErrorReply(400, -32600, <<"Missing method field">>, IdOrNull(message.id))
  ELSE NoReply

\* mutant: the registry lookup is not checked before the body is validated
SyncReplyNoLookupCheck(cid, message) ==
  IF cid = EmptyId
  THEN ErrorReply(400, -32600, <<"Missing clientId parameter">>, "null")
  ELSE IF message.shape = "undefined"
  THEN ErrorReply(400, -32600, <<"Invalid JSON-RPC message">>, "null")
  ELSE IF Falsy(message.method)
  THEN ErrorReply(400, -32600, <<"Missing method field">>, IdOrNull(message.id))
  ELSE ErrorReply(501, -32601, <<"Method not implemented: ", message.method>>,
                  IdOrNull(message.id))

\* mutant: the body is dispatched without the shape and method checks
SyncReplyNoValidation(cid, message) ==
  IF cid = EmptyId
  THEN ErrorReply(400, -32600, <<"Missing clientId parameter">>, "null")
  ELSE IF Lookup(cid) = NoConn
  THEN ErrorReply(404, -32600, <<"Client not found">>, "null")
  ELSE IF message.method \in {"tools/list", "tools/call"}
  THEN NoReply
  ELSE ErrorReply(501, -32601, <<"Method not implemented: ", message.method>>,
                  IdOrNull(message.id))

\* the reply of a run that ends before any await, NoReply when it goes on to
\* an upstream call
SyncReply(cid, message) ==
  IF cid = EmptyId
  THEN ErrorReply(400, -32600, <<"Missing clientId parameter">>, "null")
  ELSE IF Lookup(cid) = NoConn
  THEN ErrorReply(404, -32600, <<"Client not found">>, "null")
  ELSE IF message.shape = "undefined"
  THEN ErrorReply(400, -32600, <<"Invalid JSON-RPC message">>, "null")
  ELSE IF Falsy(message.method)
  THEN ErrorReply(400, -32600, <<"Missing method field">>, IdOrNull(message.id))
  ELSE IF message.method \in {"tools/list", "tools/call"}
  THEN NoReply
  ELSE ErrorReply(501, -32601, <<"Method not implemented: ", message.method>>,
                  IdOrNull(message.id))

\* POST /message up to its reply or to the `await` of the upstream call;
\* req.body is read only once the connection is found
MessageReceive(r) ==
  /\ ~exited /\ ~errorQueued
  /\ Started < MaxRuns
  /\ mPc[r] = "idle"
  /\ \A q \in Reqs : q < r => mPc[q] # "idle"
  /\ \E cid \in Ids \cup {EmptyId}, message \in Bodies :
       LET sync == SyncReply(cid, message)
       IN /\ mClientId' = [mClientId EXCEPT ![r] = cid]
          /\ mMessage' = [mMessage EXCEPT ![r] = IF Lookup(cid) = NoConn THEN NoBody ELSE message]
          /\ mConn' = [mConn EXCEPT ![r] = Lookup(cid)]
          /\ reply' = [reply EXCEPT ![r] = sync]
          /\ IF sync = NoReply
             THEN /\ upstreamCalls' = [upstreamCalls EXCEPT ![r] = @ + 1]
                  /\ mPc' = [mPc EXCEPT ![r] = "awaiting"]
             ELSE /\ UNCHANGED upstreamCalls
                  /\ mPc' = [mPc EXCEPT ![r] = "done"]
  /\ UNCHANGED <<sseVars, settled, caught, thrown, normVars, errorQueued, exited>>

\* the catch block: the error goes to the captured connection's response
\* and to the caller
Catch(r, error) ==
  LET errorMessage == errorMessageOf(error)
  IN /\ channel' = sendToClient(channel, mConn[r],
                                InternalErrorResponse(mMessage[r].id, errorMessage))
     /\ resStatus' = HeadAfterWrite(resStatus, mConn[r])
     /\ sent' = SentAfterWrite(sent, mConn[r])
     /\ reply' = [reply EXCEPT ![r] = FailureReply(errorMessage)]
     /\ caught' = [caught EXCEPT ![r] = errorMessage]
     /\ thrown' = [thrown EXCEPT ![r] = [error EXCEPT !.value = <<>>]]
     /\ errorQueued' = (errorQueued \/ WriteAfterEnd(mConn[r]))
     /\ exited' \in EndOfTick(errorQueued')

\* the lines after a resolved upstream call: send the response, then reply
Deliver(r, response) ==
  /\ channel' = sendToClient(channel, mConn[r], response)
  /\ resStatus' = HeadAfterWrite(resStatus, mConn[r])
  /\ sent' = SentAfterWrite(sent, mConn[r])
  /\ reply' = [reply EXCEPT ![r] = AcceptedReply]
  /\ errorQueued' = (errorQueued \/ WriteAfterEnd(mConn[r]))
  /\ exited' \in EndOfTick(errorQueued')
  /\ UNCHANGED <<caught, thrown>>

\* the upstream promise resolves and the handler runs to its end
UpstreamResolved(r) ==
  /\ ~exited
  /\ mPc[r] = "awaiting"
  /\ settled' = [settled EXCEPT ![r] = "resolved"]
  /\ IF mMessage[r].method = "tools/list"
     THEN \E tools \in UpstreamToolLists :
            LET normalizedResponse ==
                  normalizeToolsListResponse(ToolsListResponse(mMessage[r].id, tools))
            IN IF normalizedResponse.threw
               THEN Catch(r, normalizedResponse)
               ELSE Deliver(r, normalizedResponse.value)
     ELSE Deliver(r, ToolsCallResponse(mMessage[r].id, "text"))
  /\ mPc' = [mPc EXCEPT ![r] = "done"]
  /\ UNCHANGED <<connections, ssePc, clientId, resEnded, reqState, resDestroyed, socketGone,
                 mcpState, connectCalls, closeCalls, mClientId, mMessage, mConn,
                 upstreamCalls, normVars>>

\* mutant: a rejected upstream call is issued again
UpstreamRejectedRetried(r) ==
  /\ ~exited
  /\ mPc[r] = "awaiting"
  /\ upstreamCalls[r] < 2
  /\ upstreamCalls' = [upstreamCalls EXCEPT ![r] = @ + 1]
  /\ UNCHANGED <<sseVars, mPc, mClientId, mMessage, mConn, reply, settled, caught, thrown,
                 normVars, errorQueued, exited>>

\* what an upstream call rejects with: an Error of the library, or a value
\* that is not an Error
Rejections == {Thrown(<<text>>, <<>>) : text \in ErrTexts} \cup {ThrownValue("boom")}

\* the upstream promise rejects
UpstreamRejected(r) ==
  /\ ~exited
  /\ mPc[r] = "awaiting"
  /\ settled' = [settled EXCEPT ![r] = "rejected"]
  /\ \E error \in Rejections : Catch(r, error)
  /\ mPc' = [mPc EXCEPT ![r] = "done"]
  /\ UNCHANGED <<connections, ssePc, clientId, resEnded, reqState, resDestroyed, socketGone,
                 mcpState, connectCalls, closeCalls, mClientId, mMessage, mConn,
                 upstreamCalls, normVars>>

Next ==
  \/ \E c \in Conns : SseOpen(c)
  \/ \E c \in Conns : ConnectResolved(c)
  \/ \E c \in Conns : ConnectRejected(c)
  \/ \E c \in Conns : SocketGone(c)
  \/ \E c \in Conns, ev \in {"close", "error"} : ReqEvent(c, ev)
  \/ \E c \in Conns : ResClosed(c)
  \/ \E r \in Reqs : MessageReceive(r)
  \/ \E r \in Reqs : UpstreamResolved(r)
  \/ \E r \in Reqs : UpstreamRejected(r)

Spec == Init /\ [][Next]_vars

\* -------------------------------------------- the normalizer on its own
\* the arguments the functions are applied to
NormSchemas == ObjectSchemas \cup {AbsentSchema, NonObjectSchema}
NormTools ==
  [kind : {"object"},
   name : {"create_checkout", "absent"},
   description : {"absent", "Create a checkout session", "nonstring"},
   inputSchema : NormSchemas,
   annotations : {"absent", "readOnly"}] \cup {NonObjectTool}
ListedTools == {CheckoutTool, TypedTool, UntypedTool, BareTool, NamelessTool}
NormToolLists == UNION {[1..n -> ListedTools] : n \in 0..MaxTools}
NormResults ==
  {NoResult} \cup
  [kind : {"object"},
   tools : {NoTools} \cup {[isArray |-> TRUE, items |-> l] : l \in NormToolLists},
   content : {"absent", "nextCursor"}]
NormErrors == {NoError, [present |-> TRUE, code |-> -32000, message |-> <<"upstream">>]}
NormResponses ==
  {Response("7", e, res, m) : e \in NormErrors, res \in NormResults, m \in {"absent", "vendor"}}
  \cup {NonObjectResponse}

NormInit ==
  /\ ServerInit
  /\ returns = <<>>
  /\ \/ /\ fn = "normalizeInputSchema"
        /\ schemaArg \in NormSchemas
        /\ toolArg = NonObjectTool
        /\ responseArg = NonObjectResponse
     \/ /\ fn = "normalizeTool"
        /\ schemaArg = AbsentSchema
        /\ toolArg \in NormTools
        /\ responseArg = NonObjectResponse
     \/ /\ fn = "normalizeToolsListResponse"
        /\ schemaArg = AbsentSchema
        /\ toolArg = NonObjectTool
        /\ responseArg \in NormResponses

\* the value the next application takes: the argument, then the last result
Last(seq) == seq[Len(seq)]
CanApply ==
  /\ Len(returns) < MaxApplications
  /\ IF Len(returns) = 0 THEN TRUE ELSE ~Last(returns).threw
Current(arg) == IF Len(returns) = 0 THEN arg ELSE Last(returns).value

ApplyNormalizeInputSchema ==
  /\ fn = "normalizeInputSchema"
  /\ CanApply
  /\ returns' = Append(returns, Returned(normalizeInputSchema(Current(schemaArg))))
  /\ UNCHANGED <<sseVars, msgVars, fn, schemaArg, toolArg, responseArg, errorQueued, exited>>

ApplyNormalizeTool ==
  /\ fn = "normalizeTool"
  /\ CanApply
  /\ returns' = Append(returns, normalizeTool(Current(toolArg)))
  /\ UNCHANGED <<sseVars, msgVars, fn, schemaArg, toolArg, responseArg, errorQueued, exited>>

ApplyNormalizeToolsListResponse ==
  /\ fn = "normalizeToolsListResponse"
  /\ CanApply
  /\ returns' = Append(returns, normalizeToolsListResponse(Current(responseArg)))
  /\ UNCHANGED <<sseVars, msgVars, fn, schemaArg, toolArg, responseArg, errorQueued, exited>>

NormNext ==
  \/ ApplyNormalizeInputSchema
  \/ ApplyNormalizeTool
  \/ ApplyNormalizeToolsListResponse

NormSpec == NormInit /\ [][NormNext]_vars

\* ------------------------------------------------------------------ claims
\* the registry resolves the run's id to the run's own connection
Registered(c) == clientId[c] # NoId /\ connections[clientId[c]] = c
\* a run that found its connection and carried tools/list or tools/call
Mediated(r) ==
  /\ mPc[r] # "idle"
  /\ mConn[r] # NoConn
  /\ mMessage[r].shape = "object"
  /\ mMessage[r].method \in {"tools/list", "tools/call"}
\* the payloads written to connection c
Written(c) == {Payload(channel[c][i]) : i \in DOMAIN channel[c]}
InitFrames(c) ==
  {i \in DOMAIN channel[c] : Payload(channel[c][i]) = Stringify(InitializeMessage)}

\* C1 (as stated): every mediated request to a registered session is replied
\* to with "accepted", whether the upstream call succeeds or fails.
C1_AlwaysAccepted ==
  \A r \in Reqs : (Mediated(r) /\ mPc[r] = "done") => reply[r] = AcceptedReply

\* C2 (as stated): the "accepted" acknowledgment is issued before the
\* upstream call is made: once the call is made, the caller has its reply.
C2_AckBeforeUpstreamCall ==
  \A r \in Reqs : upstreamCalls[r] > 0 => reply[r] = AcceptedReply

\* C3 (as stated): a connection that has closed is eventually out of the
\* registry with its upstream link closed.  `close` is the request's last
\* event, so once it has been emitted, the client is gone and the handshake has
\* settled, no listener will run for the connection any more: what holds then
\* holds for good.
C3_ClosedSessionRemoved ==
  \A c \in Conns :
    (reqState[c] = "closed" /\ resDestroyed[c] /\ ssePc[c] \in {"open", "failed"}) =>
      ~Registered(c) /\ mcpState[c] # "connected"

\* a session that is live: its handshake succeeded, its connection is open
\* and its teardown has not run
Live(c) == ssePc[c] = "open" /\ ~socketGone[c] /\ ~resDestroyed[c] /\ closeCalls[c] = 0

\* C4: once the teardown listener of a session has run, or its connection is
\* gone, no further frame reaches that session's client: the message of an
\* upstream call that settles afterwards is dropped; and after the teardown
\* the response head does not change either.
C4_NothingSentAfterTeardown ==
  [][\A c \in Conns :
       /\ (closeCalls[c] > 0 \/ resDestroyed[c] \/ socketGone[c]) => sent'[c] = sent[c]
       /\ closeCalls[c] > 0 => resStatus'[c] = resStatus[c]]_vars
\* the teardown of a session has run and the message of its request, whose
\* call settled when the client was gone, is written and was not sent: the
\* client got the initialization message only
C4_Witness ==
  \E c \in Conns, r \in Reqs :
    /\ closeCalls[c] > 0 /\ mConn[r] = c /\ Mediated(r) /\ mPc[r] = "done"
    /\ sent[c] = 1 /\ Len(channel[c]) = 2
    /\ Payload(channel[c][2]).id = Drop(mMessage[r].id)

\* C5 (as stated): no inbound message is ever resolved to a session whose
\* handshake fails; its response ends with status 500 and connect was called
\* once.
C5_FailedHandshakeNeverResolved ==
  \A c \in Conns : ssePc[c] = "failed" =>
    /\ \A r \in Reqs : mConn[r] # c
    /\ resEnded[c] /\ resStatus[c] = 500
    /\ connectCalls[c] = 1

\* C6 (as stated): a session whose handshake succeeded has exactly one
\* initialization message on its channel, and it is the first frame.
C6_InitFirstAndOnce ==
  \A c \in Conns : ssePc[c] = "open" =>
    Cardinality(InitFrames(c)) = 1 /\ 1 \in InitFrames(c)

Receives(r) == mPc[r] = "idle" /\ mPc'[r] # "idle"

\* C8 (as stated): a message to a registered session with any method other
\* than tools/list and tools/call gets the not-implemented reply and causes
\* no upstream call.
C8_OtherMethodNotImplemented ==
  \A r \in Reqs :
    (/\ mPc[r] = "done" /\ mConn[r] # NoConn /\ mMessage[r].shape = "object"
     /\ mMessage[r].method \notin {"absent", "tools/list", "tools/call"}) =>
      reply[r].status = 501 /\ reply[r].code = -32601 /\ upstreamCalls[r] = 0

\* C8 (amended): a message to a registered session whose method is a
\* non-empty string other than tools/list and tools/call gets, in the step
\* that receives it, the not-implemented reply (501, code -32601, not the
\* validation code -32600); a message whose method is the empty string gets
\* the validation reply of a message without method (400, code -32600,
\* "Missing method field"); either way there is no upstream call, no write to
\* any channel and no change of the registry.
C8_NonEmptyOtherMethodNotImplemented ==
  [][\A r \in Reqs :
       (/\ Receives(r) /\ mConn'[r] # NoConn /\ mMessage'[r].shape = "object"
        /\ mMessage'[r].method \notin {"absent", "tools/list", "tools/call"}) =>
         /\ mPc'[r] = "done"
         /\ reply'[r] =
              (IF mMessage'[r].method = ""
               THEN ErrorReply(400, -32600, <<"Missing method field">>,
                               IdOrNull(mMessage'[r].id))
               ELSE ErrorReply(501, -32601,
                               <<"Method not implemented: ", mMessage'[r].method>>,
                               IdOrNull(mMessage'[r].id)))
         /\ upstreamCalls'[r] = 0
         /\ channel' = channel /\ sent' = sent /\ connections' = connections]_vars
\* one session got a message with another method and one with the empty method
C8_Witness ==
  \E r, q \in Reqs :
    /\ mPc[r] = "done" /\ mConn[r] # NoConn /\ mMessage[r].method = "foo/bar"
    /\ reply[r].status = 501 /\ channel[mConn[r]] # <<>>
    /\ mPc[q] = "done" /\ mConn[q] = mConn[r] /\ mMessage[q].method = ""
    /\ reply[q].status = 400 /\ reply[q].message = <<"Missing method field">>

\* C9 (as stated): a message whose session identifier does not resolve is
\* answered "Client not found", with no upstream call.
C9_UnresolvedIsClientNotFound ==
  \A r \in Reqs : (mPc[r] = "done" /\ mConn[r] = NoConn) =>
    reply[r].message = <<"Client not found">> /\ upstreamCalls[r] = 0

\* C9 (amended): a message whose session identifier is not empty and is not
\* in the registry is answered 404 "Client not found"; an empty identifier is
\* answered 400 "Missing clientId parameter"; either way the run ends in the
\* step that receives the message, with no upstream call, no write to any
\* channel and no change of the registry.
C9_UnresolvedRejected ==
  [][\A r \in Reqs :
       (Receives(r) /\ (mClientId'[r] = EmptyId \/ connections[mClientId'[r]] = NoConn)) =>
         /\ mPc'[r] = "done"
         /\ reply'[r] = IF mClientId'[r] = EmptyId
                        THEN ErrorReply(400, -32600, <<"Missing clientId parameter">>, "null")
                        ELSE ErrorReply(404, -32600, <<"Client not found">>, "null")
         /\ upstreamCalls'[r] = 0
         /\ channel' = channel /\ connections' = connections]_vars
\* the id was registered once: its session was torn down before the message
C9_Witness ==
  \E r \in Reqs, c \in Conns :
    /\ mPc[r] = "done" /\ mClientId[r] = clientId[c] /\ mConn[r] = NoConn
    /\ closeCalls[c] > 0
    /\ reply[r].status = 404

\* C10: a message that is not an object, or has no `method`, is rejected in
\* the step that receives it: the reply is the validation error (400, code
\* -32600; 404 when the session is not found either), no upstream call is
\* made, and no channel and no registry entry changes.
C10_MalformedRejected ==
  [][\A r \in Reqs :
       (Receives(r) /\ (mMessage'[r].shape # "object" \/ mMessage'[r].method = "absent")) =>
         /\ mPc'[r] = "done"
         /\ reply'[r].status = (IF mConn'[r] = NoConn /\ mClientId'[r] # EmptyId
                                THEN 404 ELSE 400)
         /\ reply'[r].code = -32600
         /\ upstreamCalls'[r] = 0
         /\ channel' = channel /\ connections' = connections]_vars
C10_Witness ==
  \E r, q \in Reqs :
    /\ mPc[r] = "done" /\ mConn[r] # NoConn /\ mMessage[r].shape = "undefined"
    /\ reply[r].message = <<"Invalid JSON-RPC message">>
    /\ mPc[q] = "done" /\ mConn[q] # NoConn /\ mMessage[q] = Body("object", "absent", "7")
    /\ reply[q] = ErrorReply(400, -32600, <<"Missing method field">>, "7")

\* the step in which the upstream call of run r settles and the run ends
Settles(r) == mPc[r] = "awaiting" /\ mPc'[r] = "done"
\* the frame written last to connection c
LastFrame(ch, c) == ch[c][Len(ch[c])]

\* C11: the messages of the mediated requests of one session are on its
\* channel in the order in which the upstream calls settle: the step in which
\* a call settles puts that request's message, as one whole frame, after
\* everything written before, and no step changes or reorders a frame that is
\* already written.
C11_WrittenInCompletionOrder ==
  [][/\ \A r \in Reqs : Settles(r) =>
          /\ Len(channel'[mConn[r]]) = Len(channel[mConn[r]]) + 1
          /\ LastFrame(channel', mConn[r]) = Frame(Payload(LastFrame(channel', mConn[r])))
          /\ Payload(LastFrame(channel', mConn[r])).id = Drop(mMessage[r].id)
     /\ \A c \in Conns :
          /\ Len(channel'[c]) >= Len(channel[c])
          /\ SubSeq(channel'[c], 1, Len(channel[c])) = channel[c]]_vars
\* two requests of one live session: the one that arrived second (id 8) settled
\* first, and its message is before the message of the first (id 7)
C11_Witness ==
  \E c \in Conns, r, q \in Reqs :
    /\ r < q /\ mConn[r] = c /\ mConn[q] = c /\ Registered(c)
    /\ mPc[r] = "done" /\ mPc[q] = "done"
    /\ mMessage[r].id = "7" /\ mMessage[q].id = "8"
    /\ Len(channel[c]) = 3
    /\ Payload(channel[c][2]).id = "8"
    /\ Payload(channel[c][3]).id = "7"

UniqueId(c) == clientId[c] # NoId /\ \A d \in Conns : d # c => clientId[d] # clientId[c]

C13_SecondTeardownNoOp ==
  [][\A c \in Conns :
       (closeCalls[c] >= 1 /\ reqState'[c] # reqState[c]) =>
         /\ connections' = connections
         /\ closeCalls'[c] = closeCalls[c]
         /\ mcpState'[c] = mcpState[c]]_vars

\* C14: no upstream call is retried.  A run that accepted a tools/list or
\* tools/call message has made exactly one upstream call, at every moment
\* from the acceptance on; any other run has made none; and when the call was
\* rejected the run has ended with that one call, the failure written to the
\* session's channel and reported to the caller.
C14_NoRetry ==
  \A r \in Reqs :
    /\ upstreamCalls[r] = (IF Mediated(r) THEN 1 ELSE 0)
    /\ settled[r] # "none" => mPc[r] = "done"
    /\ settled[r] = "rejected" =>
         /\ reply[r].status = 500
         /\ \E m \in Written(mConn[r]) : m.error.present /\ m.error.code = -32603
C14_Witness ==
  \E r \in Reqs :
    /\ Mediated(r) /\ mMessage[r].method = "tools/list"
    /\ settled[r] = "rejected" /\ mPc[r] = "done" /\ upstreamCalls[r] = 1
    /\ \E m \in Written(mConn[r]) : m.error.present

\* the tools of the tools/list responses written to connection c
DeliveredTools(c) ==
  UNION {{m.result.tools.items[i] : i \in DOMAIN m.result.tools.items} :
           m \in {w \in Written(c) : w.result.kind = "object" /\ w.result.tools.isArray}}

\* C15 (as stated): every tool of a tools/list response written to a client
\* has an inputSchema that carries a `type`.
C15_DeliveredSchemasTyped ==
  \A c \in Conns : \A t \in DeliveredTools(c) :
    t.inputSchema.kind = "object" /\ t.inputSchema.type # "absent"

\* the first application of normalizeTool returned a tool
ToolNormalized == fn = "normalizeTool" /\ Len(returns) >= 1 /\ ~returns[1].threw

\* C16: the inputSchema of a normalized tool is the reference result: the
\* default {type: "object", properties: {}} when the tool has no inputSchema;
\* the schema with type "object" added and every other key as it was when the
\* schema has no `type` key and has `properties`; the schema itself in every
\* other case.
C16_InputSchemaIsReference ==
  ToolNormalized =>
    LET s == toolArg.inputSchema
        out == returns[1].value.inputSchema
    IN /\ s.kind = "absent" =>
            out = [kind |-> "object", type |-> "object", properties |-> "{}",
                   required |-> "absent"]
       /\ (s.kind = "object" /\ s.type = "absent" /\ s.properties # "absent") =>
            /\ out.type = "object"
            /\ out.kind = s.kind /\ out.properties = s.properties /\ out.required = s.required
       /\ (s.kind = "object" /\ (s.type # "absent" \/ s.properties = "absent")) => out = s
\* a schema without type whose properties is the empty map got the type, and
\* kept its `required`
C16_Witness ==
  /\ ToolNormalized
  /\ toolArg.inputSchema.kind = "object"
  /\ toolArg.inputSchema.type = "absent"
  /\ toolArg.inputSchema.properties = "{}"
  /\ toolArg.inputSchema.required = "[product_id]"
  /\ returns[1].value.inputSchema.type = "object"
  /\ returns[1].value.inputSchema.required = "[product_id]"

\* C17: normalization is idempotent: applying normalizeInputSchema, or
\* normalizeToolsListResponse, to its own result returns that result again.
C17_Idempotent ==
  fn \in {"normalizeInputSchema", "normalizeToolsListResponse"} =>
    \A i \in 2..Len(returns) : returns[i] = returns[i - 1]
\* a response that the first application changed and the second did not, and
\* a schema likewise
C17_Witness ==
  /\ fn = "normalizeToolsListResponse"
  /\ Len(returns) = 2
  /\ ~returns[1].threw
  /\ returns[1].value # responseArg
  /\ \E i \in DOMAIN responseArg.result.tools.items :
       /\ responseArg.result.tools.items[i].inputSchema.kind = "absent"
       /\ returns[1].value.result.tools.items[i].inputSchema.type = "object"
  /\ returns[2] = returns[1]

\* C18 (as stated): a normalized tool has every field of the input tool
\* other than inputSchema with the same value, and no field the input lacked
\* (read on the serialized tool, where a key holding undefined is left out).
C18_OnlyInputSchemaChanges ==
  ToolNormalized =>
    /\ returns[1].value.name = toolArg.name
    /\ Drop(returns[1].value.description) = toolArg.description
    /\ returns[1].value.annotations = toolArg.annotations

\* the first application of normalizeToolsListResponse returned
ResponseNormalized ==
  fn = "normalizeToolsListResponse" /\ Len(returns) >= 1 /\ ~returns[1].threw
\* the response is a successful one whose result holds a tools array
HasToolsArray(resp) ==
  /\ resp.kind = "object" /\ ~resp.error.present
  /\ resp.result.kind = "object" /\ resp.result.tools.isArray

\* C19: normalizeToolsListResponse returns its argument when the response has
\* an error or its result has no tools array; otherwise the response it
\* returns has the argument's jsonrpc, id, error and extension keys, a result
\* with the argument's other keys, and a tools array of the same length that
\* holds the normalized tools in the argument's order.
C19_ResponsePassthrough ==
  ResponseNormalized =>
    LET out == returns[1].value
    IN IF ~HasToolsArray(responseArg)
       THEN out = responseArg
       ELSE /\ out.kind = responseArg.kind /\ out.jsonrpc = responseArg.jsonrpc
            /\ out.id = responseArg.id /\ out.error = responseArg.error
            /\ out.meta = responseArg.meta
            /\ out.result.kind = responseArg.result.kind
            /\ out.result.content = responseArg.result.content
            /\ out.result.tools.isArray
            /\ Len(out.result.tools.items) = Len(responseArg.result.tools.items)
            /\ \A i \in DOMAIN out.result.tools.items :
                 /\ out.result.tools.items[i].name = responseArg.result.tools.items[i].name
                 /\ Returned(out.result.tools.items[i]) =
                      normalizeTool(responseArg.result.tools.items[i])
\* two tools, an extension key and a further result key: the second tool
\* came out unchanged, the first with its type added
C19_Witness ==
  /\ ResponseNormalized
  /\ HasToolsArray(responseArg)
  /\ responseArg.meta = "vendor" /\ responseArg.result.content = "nextCursor"
  /\ responseArg.result.tools.items = <<CheckoutTool, TypedTool>>
  /\ returns[1].value.meta = "vendor"
  /\ returns[1].value.result.tools.items[1].inputSchema.type = "object"
  /\ returns[1].value.result.tools.items[2].name = "list_products"

====
